---- MODULE Spec2Model ----
(***************************************************************************)
(* A model of agent-manager's manifest store (core/manifest.py), safety    *)
(* evaluator (core/safety.py) and merge engine                             *)
(* (plugins/agents/agent.py, AbstractAgent.merge_configurations).          *)
(*                                                                         *)
(* File contents and hashes are sequences of string tokens.  The output    *)
(* directory is a function from the relative paths that exist to their     *)
(* content.  A manifest is a record [last_synced, files] whose files are a *)
(* sequence of entries [name, agents, hash], as in the YAML document.      *)
(***************************************************************************)
EXTENDS Integers, Sequences, FiniteSets, TLC

\* ------------------------------------------------------------------------
\* Bounds and input sets
\* ------------------------------------------------------------------------
\* Length of the hierarchy handed to merge_configurations.
NumSources == 2
\* Number of runs of merge_configurations against the output directory.
MaxRuns == 2

Keys == {"rules.md", "config.json"}

AgentNames == {"claude", "cursor"}

\* Contents somebody other than the tool may have put in an output file.
UserFiles == {<<"user", "v1">>, <<"user", "v2">>}

\* The repo argument of check_clobber: no repo, a repo whose
\* safe_to_overwrite answers True, a repo whose safe_to_overwrite answers False.
RepoKinds == {"none", "recoverable", "unrecoverable"}

\* ------------------------------------------------------------------------
\* Sequence helpers
\* ------------------------------------------------------------------------
Range(s) == {s[i] : i \in 1..Len(s)}

Min(S) == CHOOSE x \in S : \A y \in S : x <= y

\* list.remove(x): drops the first occurrence of x.
RemoveFirst(s, x) ==
    LET hits == {i \in 1..Len(s) : s[i] = x}
    IN  IF hits = {} THEN s
        ELSE LET i == Min(hits)
             IN  SubSeq(s, 1, i - 1) \o SubSeq(s, i + 1, Len(s))

\* ------------------------------------------------------------------------
\* core/manifest.py
\* ------------------------------------------------------------------------
\* hashlib.sha256(bytes).hexdigest(): a digest that differs for different
\* contents and is the empty string when the file cannot be read.
Sha256(content) == <<"sha256">> \o content

_file_hash(d, k) == IF k \in DOMAIN d THEN Sha256(d[k]) ELSE <<>>

\* last_synced None is 0; a timestamp is a positive clock value.
_empty_manifest == [last_synced |-> 0, files |-> <<>>]

\* ---- yaml.dump(manifest, f, default_flow_style=False, sort_keys=False)
\* and yaml.safe_load(f).  A YAML document is the sequence of its tokens: a
\* key of the top-level mapping ("last_synced:", "files:"), the start of a
\* list item that is a mapping ("- name:"), a key inside it ("agents:",
\* "hash:"), the start of a scalar list item ("-"), the empty flow sequence
\* ("[]"), the null scalar ("null"), a quote, or a piece of a scalar.
RECURSIVE Concat(_)
Concat(ss) == IF ss = <<>> THEN <<>> ELSE Head(ss) \o Concat(Tail(ss))

RECURSIVE SetToSeq(_)
SetToSeq(S) == IF S = {} THEN <<>> ELSE <<Min(S)>> \o SetToSeq(S \ {Min(S)})

Positions(text, tok) == {i \in 1..Len(text) : text[i] = tok}

\* datetime.now(tz=UTC).isoformat(timespec="seconds") at clock value t; the
\* string resolves as a YAML timestamp, so yaml.dump writes it in quotes.
isoformat == <<"'T1'", "'T2'">>

DumpTimestamp(t) == IF t = 0 THEN "null" ELSE isoformat[t]

LoadTimestamp(tok) ==
    IF tok = "null" THEN 0
    ELSE CHOOSE t \in 1..Len(isoformat) : isoformat[t] = tok

DumpAgents(agents) ==
    IF agents = <<>> THEN <<"[]">>
    ELSE Concat([i \in 1..Len(agents) |-> <<"-", agents[i]>>])

\* The keys of an entry in insertion order: name, agents, hash.
DumpEntry(e) ==
    <<"- name:", e.name, "agents:">> \o DumpAgents(e.agents)
        \o <<"hash:", "'">> \o e.hash \o <<"'">>

\* The keys of the manifest in insertion order: last_synced, files.
yaml_dump(m) ==
    <<"last_synced:", DumpTimestamp(m.last_synced), "files:">>
        \o (IF m.files = <<>> THEN <<"[]">>
            ELSE Concat([i \in 1..Len(m.files) |-> DumpEntry(m.files[i])]))

\* One list item of files: from its "- name:" to the token before the next.
LoadEntry(seg) ==
    LET a == Min(Positions(seg, "agents:"))
        h == Min(Positions(seg, "hash:"))
    IN  [name   |-> seg[2],
         agents |-> IF seg[a + 1] = "[]" THEN <<>>
                    ELSE [j \in 1..((h - a - 1) \div 2) |-> seg[a + 2 * j]],
         hash   |-> SubSeq(seg, h + 2, Len(seg) - 1)]

LoadEntries(block) ==
    LET starts == SetToSeq(Positions(block, "- name:"))
    IN  [j \in 1..Len(starts) |->
            LoadEntry(SubSeq(block, starts[j],
                             IF j < Len(starts) THEN starts[j + 1] - 1
                             ELSE Len(block)))]

\* The value of a document that is a mapping: last_synced (0 when the key is
\* absent or null), the type of the value of files ("absent" when there is
\* no such key) and, when that value is a list, its entries.
yaml_safe_load(text) ==
    LET ls    == Positions(text, "last_synced:")
        fs    == Positions(text, "files:")
        f     == Min(fs)
        after == {i \in ls : i > f}
        block == SubSeq(text, f + 1,
                        IF after = {} THEN Len(text) ELSE Min(after) - 1)
        type  == IF fs = {} THEN "absent"
                 ELSE IF block = <<"null">> THEN "NoneType"
                 ELSE IF block = <<"[]">> THEN "list"
                 ELSE IF block # <<>> /\ block[1] = "- name:" THEN "list"
                 ELSE "str"
    IN  [last_synced |-> IF ls = {} THEN 0 ELSE LoadTimestamp(text[Min(ls) + 1]),
         files_type  |-> type,
         files       |-> IF type = "list" /\ block # <<"[]">>
                         THEN LoadEntries(block) ELSE <<>>]

\* The manifest file: kind "missing" when there is none, kind "mapping" for a
\* YAML mapping with the text data.
NoManifestFile == [kind |-> "missing", data |-> <<>>]

\* What read_manifest can find at the manifest path:
\*   "missing"       nothing is there (stat fails with ENOENT or ENOTDIR);
\*   "inaccessible"  stat fails with another OSError (EACCES on the
\*                   .agent-manager directory, ENAMETOOLONG, ...);
\*   "unreadable"    the file is there and open() raises OSError;
\*   "unparseable"   yaml.safe_load raises;
\*   "non_mapping"   the YAML document is not a mapping;
\*   "mapping"       the YAML document is a mapping.
DocKinds ==
    {"missing", "inaccessible", "unreadable", "unparseable", "non_mapping", "mapping"}

\* A manifest file of kind k that is not a mapping.
BadManifestFile(k) == [kind |-> k, data |-> <<>>]

\* path.exists(), called outside the try block.  Path.exists answers False
\* for ENOENT, ENOTDIR, EBADF and ELOOP; for any other OSError it re-raises
\* (pathlib up to Python 3.13) or answers False (os.path.exists semantics),
\* which existsRaises selects.
read_manifest_raises(doc, existsRaises) ==
    doc.kind = "inaccessible" /\ existsRaises

\* Whether the except branch, the only place that emits a warning, is taken.
read_manifest_warns(doc) == doc.kind \in {"unreadable", "unparseable"}

\* The type of the value of files in the dictionary read_manifest returns:
\* setdefault("files", []) supplies the list only when the key is absent.
read_manifest_files_type(doc) ==
    IF doc.kind # "mapping" THEN "list"
    ELSE LET type == yaml_safe_load(doc.data).files_type
         IN  IF type = "absent" THEN "list" ELSE type

\* The dictionary read_manifest returns when it returns; files holds the
\* entries when the value of files is a list.
read_manifest(doc) ==
    IF doc.kind = "missing" THEN _empty_manifest
    ELSE IF doc.kind # "mapping" THEN _empty_manifest
    ELSE LET data == yaml_safe_load(doc.data)
         IN  [last_synced |-> data.last_synced, files |-> data.files]

\* Mutant: last_synced is left as the caller passed it.
write_manifestKeepsTimestamp(m, t) ==
    [kind |-> "mapping", data |-> yaml_dump(m)]

\* The document write_manifest leaves at time t.
write_manifest(m, t) ==
    [kind |-> "mapping", data |-> yaml_dump([m EXCEPT !.last_synced = t])]

\* for entry in manifest.get("files", []): entry.get("name") raises
\* TypeError when files is None and AttributeError when it is a string.
get_manifest_entry_raises(files_type) == files_type # "list"

\* Index of the first entry named k, 0 for None.
get_manifest_entry(m, k) ==
    LET hits == {i \in 1..Len(m.files) : m.files[i].name = k}
    IN  IF hits = {} THEN 0 ELSE Min(hits)

is_managed(m, k) == get_manifest_entry(m, k) # 0

\* Mutant: the agent is appended whether or not the entry already lists it.
add_or_update_entryAlwaysAppends(m, k, a, d) ==
    LET i == get_manifest_entry(m, k)
        new_hash == _file_hash(d, k)
    IN  IF i # 0
        THEN [m EXCEPT !.files[i].agents = Append(@, a),
                       !.files[i].hash = new_hash]
        ELSE [m EXCEPT !.files =
                           Append(@, [name |-> k, agents |-> <<a>>, hash |-> new_hash])]
\* Mutant: a new entry is appended whether or not the key has one.
add_or_update_entryAlwaysNew(m, k, a, d) ==
    [m EXCEPT !.files =
                  Append(@, [name |-> k, agents |-> <<a>>, hash |-> _file_hash(d, k)])]

add_or_update_entry(m, k, a, d) ==
    LET i == get_manifest_entry(m, k)
        new_hash == _file_hash(d, k)
    IN  IF i # 0
        THEN [m EXCEPT !.files[i].agents =
                           IF a \in Range(@) THEN @ ELSE Append(@, a),
                       !.files[i].hash = new_hash]
        ELSE [m EXCEPT !.files =
                           Append(@, [name |-> k, agents |-> <<a>>, hash |-> new_hash])]

\* Returns the manifest afterwards and the function's boolean result.
\* Mutant: the entry is kept when its last agent is removed.
remove_agent_from_entryKeepsEmpty(m, k, a) ==
    LET i == get_manifest_entry(m, k)
    IN  IF i = 0 THEN [manifest |-> m, removed |-> FALSE]
        ELSE [manifest |-> [m EXCEPT !.files[i].agents = RemoveFirst(@, a)],
              removed |-> FALSE]
remove_agent_from_entry(m, k, a) ==
    LET i == get_manifest_entry(m, k)
    IN  IF i = 0 THEN [manifest |-> m, removed |-> FALSE]
        ELSE LET agents == RemoveFirst(m.files[i].agents, a)
                 NotK(e) == e.name # k
             IN  IF agents = <<>>
                 THEN [manifest |-> [m EXCEPT !.files = SelectSeq(@, NotK)],
                       removed |-> TRUE]
                 ELSE [manifest |-> [m EXCEPT !.files[i].agents = agents],
                       removed |-> FALSE]

\* One iteration of the loop of cleanup_stale_files over the entry e of the
\* copied list; st is [manifest, disk, deleted].  unlinkFails is the set of
\* paths whose unlink raises OSError.
\* Mutant: the entry of a sole owner is dropped but the file is never unlinked.
CleanupStepNoUnlink(st, e, agent_name, current_files, unlinkFails) ==
    IF agent_name \notin Range(e.agents) THEN st
    ELSE IF e.name \in current_files THEN st
    ELSE [st EXCEPT !.manifest =
              remove_agent_from_entry(st.manifest, e.name, agent_name).manifest]
\* Mutant: the file is unlinked whenever the agent is taken off the entry,
\* whether or not other agents still own it.
CleanupStepUnlinkShared(st, e, agent_name, current_files, unlinkFails) ==
    IF agent_name \notin Range(e.agents) THEN st
    ELSE IF e.name \in current_files THEN st
    ELSE LET r == remove_agent_from_entry(st.manifest, e.name, agent_name)
         IN  IF e.name \notin DOMAIN st.disk \/ e.name \in unlinkFails
             THEN [st EXCEPT !.manifest = r.manifest]
             ELSE [manifest |-> r.manifest,
                   disk |-> [x \in DOMAIN st.disk \ {e.name} |-> st.disk[x]],
                   deleted |-> Append(st.deleted, e.name)]
CleanupStep(st, e, agent_name, current_files, unlinkFails) ==
    IF agent_name \notin Range(e.agents) THEN st
    ELSE IF e.name \in current_files THEN st
    ELSE LET r == remove_agent_from_entry(st.manifest, e.name, agent_name)
         IN  IF ~r.removed THEN [st EXCEPT !.manifest = r.manifest]
             ELSE IF e.name \notin DOMAIN st.disk
                  THEN [st EXCEPT !.manifest = r.manifest]
             ELSE IF e.name \in unlinkFails
                  THEN [st EXCEPT !.manifest = r.manifest]
             ELSE [manifest |-> r.manifest,
                   disk |-> [x \in DOMAIN st.disk \ {e.name} |-> st.disk[x]],
                   deleted |-> Append(st.deleted, e.name)]

RECURSIVE CleanupLoop(_, _, _, _, _)
CleanupLoop(st, snapshot, agent_name, current_files, unlinkFails) ==
    IF snapshot = <<>> THEN st
    ELSE CleanupLoop(CleanupStep(st, Head(snapshot), agent_name, current_files, unlinkFails),
                     Tail(snapshot), agent_name, current_files, unlinkFails)

\* Mutant: every entry of the agent is taken for stale.
cleanup_stale_filesForgetsCurrent(d, m, agent_name, current_files, unlinkFails) ==
    CleanupLoop([manifest |-> m, disk |-> d, deleted |-> <<>>],
                m.files, agent_name, {}, unlinkFails)

cleanup_stale_files(d, m, agent_name, current_files, unlinkFails) ==
    CleanupLoop([manifest |-> m, disk |-> d, deleted |-> <<>>],
                m.files, agent_name, current_files, unlinkFails)

\* ------------------------------------------------------------------------
\* core/safety.py
\* ------------------------------------------------------------------------
SAFE == "safe"
CLOBBER_RECOVERABLE == "clobber_recoverable"
CLOBBER_RISKY == "clobber_risky"
NEW_FILE == "new_file"

ClobberActions == {SAFE, NEW_FILE, CLOBBER_RECOVERABLE, CLOBBER_RISKY}

\* ClobberAction(action, file_name, reason); consulted records whether
\* repo.safe_to_overwrite was called on the way to the verdict.
ClobberAction(action, file_name, reason, consulted) ==
    [action |-> action, file_name |-> file_name, reason |-> reason,
     consulted |-> consulted]

\* AbstractRepo.safe_to_overwrite as answered by the repo handed in.
safe_to_overwrite(repo) == repo = "recoverable"

is_safe(clobber) == clobber.action \in {SAFE, NEW_FILE}

\* Mutant: the disk is looked at before the manifest.
check_clobberDiskFirst(file_name, d, m, repo) ==
    IF file_name \notin DOMAIN d
    THEN ClobberAction(NEW_FILE, file_name, "file does not exist yet", FALSE)
    ELSE IF is_managed(m, file_name)
    THEN ClobberAction(SAFE, file_name, "file tracked in manifest", FALSE)
    ELSE IF repo # "none" /\ safe_to_overwrite(repo)
    THEN ClobberAction(CLOBBER_RECOVERABLE, file_name,
                       "file exists (unmanaged) but is recoverable via VCS", TRUE)
    ELSE ClobberAction(CLOBBER_RISKY, file_name,
                       "file exists (unmanaged) and cannot be recovered", repo # "none")
\* Mutant: a managed file counts as SAFE only while its content still has the
\* recorded hash.
check_clobberHashChecked(file_name, d, m, repo) ==
    IF /\ is_managed(m, file_name)
       /\ m.files[get_manifest_entry(m, file_name)].hash = _file_hash(d, file_name)
    THEN ClobberAction(SAFE, file_name, "file tracked in manifest", FALSE)
    ELSE IF file_name \notin DOMAIN d
    THEN ClobberAction(NEW_FILE, file_name, "file does not exist yet", FALSE)
    ELSE IF repo # "none" /\ safe_to_overwrite(repo)
    THEN ClobberAction(CLOBBER_RECOVERABLE, file_name,
                       "file exists (unmanaged) but is recoverable via VCS", TRUE)
    ELSE ClobberAction(CLOBBER_RISKY, file_name,
                       "file exists (unmanaged) and cannot be recovered", repo # "none")
check_clobber(file_name, d, m, repo) ==
    IF is_managed(m, file_name)
    THEN ClobberAction(SAFE, file_name, "file tracked in manifest", FALSE)
    ELSE IF file_name \notin DOMAIN d
    THEN ClobberAction(NEW_FILE, file_name, "file does not exist yet", FALSE)
    ELSE IF repo # "none" /\ safe_to_overwrite(repo)
    THEN ClobberAction(CLOBBER_RECOVERABLE, file_name,
                       "file exists (unmanaged) but is recoverable via VCS", TRUE)
    ELSE ClobberAction(CLOBBER_RISKY, file_name,
                       "file exists (unmanaged) and cannot be recovered", repo # "none")

\* The text of a WARNING message of should_write_file.
ClobberWarning(verb, file_name, detail) ==
    <<"WARNING:", verb, "unmanaged file:", file_name, detail>>

\* Returns the decision, whether a WARNING message was emitted, and its text.
\* Mutant: for a risky clobber --non-interactive is tested before --force.
should_write_fileNonInteractiveFirst(clobber, forced, non_interactive) ==
    LET Warn(write, verb, detail) ==
            [write |-> write, warned |-> TRUE,
             message |-> ClobberWarning(verb, clobber.file_name, detail)]
    IN  IF is_safe(clobber) THEN [write |-> TRUE, warned |-> FALSE, message |-> <<>>]
        ELSE IF clobber.action = CLOBBER_RECOVERABLE
        THEN IF forced THEN Warn(TRUE, "Overwriting", "(--force, recoverable)")
             ELSE Warn(FALSE, "Skipped", "(recoverable via VCS, use --force to overwrite)")
        ELSE IF non_interactive
        THEN Warn(FALSE, "Skipped", "(not recoverable, use --force to overwrite)")
        ELSE IF forced THEN Warn(TRUE, "Overwriting", "(--force, NOT recoverable)")
        ELSE Warn(FALSE, "Skipped", "(not recoverable, use --force to overwrite)")
\* Mutant: an overwrite under --force is not logged.
should_write_fileQuietForce(clobber, forced, non_interactive) ==
    LET Warn(write, verb, detail) ==
            [write |-> write, warned |-> TRUE,
             message |-> ClobberWarning(verb, clobber.file_name, detail)]
    IN  IF is_safe(clobber) THEN [write |-> TRUE, warned |-> FALSE, message |-> <<>>]
        ELSE IF forced THEN [write |-> TRUE, warned |-> FALSE, message |-> <<>>]
        ELSE IF clobber.action = CLOBBER_RECOVERABLE
        THEN Warn(FALSE, "Skipped", "(recoverable via VCS, use --force to overwrite)")
        ELSE Warn(FALSE, "Skipped", "(not recoverable, use --force to overwrite)")
should_write_file(clobber, forced, non_interactive) ==
    LET Warn(write, verb, detail) ==
            [write |-> write, warned |-> TRUE,
             message |-> ClobberWarning(verb, clobber.file_name, detail)]
    IN  IF is_safe(clobber) THEN [write |-> TRUE, warned |-> FALSE, message |-> <<>>]
        ELSE IF clobber.action = CLOBBER_RECOVERABLE
        THEN IF forced THEN Warn(TRUE, "Overwriting", "(--force, recoverable)")
             ELSE Warn(FALSE, "Skipped", "(recoverable via VCS, use --force to overwrite)")
        ELSE IF forced THEN Warn(TRUE, "Overwriting", "(--force, NOT recoverable)")
        ELSE IF non_interactive
        THEN Warn(FALSE, "Skipped", "(not recoverable, use --force to overwrite)")
        ELSE Warn(FALSE, "Skipped", "(not recoverable, use --force to overwrite)")

\* TypeValidation results.
MATCH == "match"
MISMATCH == "mismatch"
NO_CONFIG == "no_config"
NOT_EXISTS == "not_exists"

\* What the target path is on disk: nothing, a regular file, a directory
\* without .git, a directory with .git.
PathKinds == {"absent", "regular_file", "plain_dir", "git_dir"}

\* configured_type; "none" is None.
ConfiguredTypes == {"none", "git", "file"}

\* AbstractRepo.detect_directory; "none" is None.
detect_directory(path) ==
    CASE path \in {"absent", "regular_file"} -> "none"
      [] path = "git_dir" -> "git"
      [] OTHER -> "file"

TypeValidation(result, configured, detected) ==
    [result |-> result, configured |-> configured, detected |-> detected]

\* The property TypeValidation.ok.
TypeValidation_ok(validation) == validation.result \in {MATCH, NO_CONFIG}

validate_directory_type(path, configured_type) ==
    IF path = "absent"
    THEN TypeValidation(NOT_EXISTS, configured_type, "none")
    ELSE LET detected == detect_directory(path)
         IN  IF configured_type = "none"
             THEN TypeValidation(NO_CONFIG, "none", detected)
             ELSE IF configured_type = detected
             THEN TypeValidation(MATCH, configured_type, detected)
             ELSE TypeValidation(MISMATCH, configured_type, detected)

\* Returns the decision and whether a WARNING message was emitted.
\* Mutant: --force is tested before the NOT_EXISTS result.
should_proceed_on_type_mismatchForceFirst(validation, forced, non_interactive) ==
    IF TypeValidation_ok(validation) THEN [proceed |-> TRUE, warned |-> FALSE]
    ELSE IF forced THEN [proceed |-> TRUE, warned |-> TRUE]
    ELSE IF validation.result = NOT_EXISTS THEN [proceed |-> FALSE, warned |-> TRUE]
    ELSE IF non_interactive THEN [proceed |-> FALSE, warned |-> TRUE]
    ELSE [proceed |-> FALSE, warned |-> TRUE]
should_proceed_on_type_mismatch(validation, forced, non_interactive) ==
    IF TypeValidation_ok(validation) THEN [proceed |-> TRUE, warned |-> FALSE]
    ELSE IF validation.result = NOT_EXISTS THEN [proceed |-> FALSE, warned |-> TRUE]
    ELSE IF forced THEN [proceed |-> TRUE, warned |-> TRUE]
    ELSE IF non_interactive THEN [proceed |-> FALSE, warned |-> TRUE]
    ELSE [proceed |-> FALSE, warned |-> TRUE]

\* ------------------------------------------------------------------------
\* plugins/agents/agent.py
\* ------------------------------------------------------------------------
\* get_agent_name() of the agent that runs.
AgentName == "claude"

\* Names of the hierarchy entries, lowest priority first.
SourceNames == <<"org", "team", "personal">>

\* The keys in the order sorted() gives their paths.
SortedKeys == <<"config.json", "rules.md">>

\* The suffix after the last dot of a key.
Extension(k) ==
    CASE k \in {"rules.md", "README.md", "JIRA.md"} -> ".md"
      [] k = "config.json" -> ".json"
      [] k = "agent.pyc" -> ".pyc"
      [] OTHER -> ""

\* fnmatch.fnmatch for the patterns the registries and the exclude list hold.
fnmatch(name, pattern) ==
    \/ pattern = "*"
    \/ pattern = "*.md" /\ Extension(name) = ".md"
    \/ pattern = "*.json" /\ Extension(name) = ".json"
    \/ pattern = "*.pyc" /\ Extension(name) = ".pyc"
    \/ pattern = name

\* str.rstrip(): trailing whitespace tokens are dropped.
RECURSIVE rstrip(_)
rstrip(c) ==
    IF c # <<>> /\ c[Len(c)] \in {" ", "\n"}
    THEN rstrip(SubSeq(c, 1, Len(c) - 1))
    ELSE c

_clean_markdown(content) == rstrip(content) \o <<"\n">>

_add_metadata_header(content, file_name, sources) ==
    IF Extension(file_name) = ".json" THEN content
    ELSE LET comment == IF Extension(file_name) = ".md"
                        THEN <<"<!-- ", " -->">>
                        ELSE <<"# ", "">>
         IN  <<comment[1], "Generated by agent-manager", AgentName, comment[2],
               "File:", file_name, "Sources:">>
                 \o sources
                 \o <<"Hierarchy:", sources[1], sources[Len(sources)], "\n\n">>
                 \o content

\* The registries _register_default_hooks fills, in registration order.
pre_merge_hooks == <<[pattern |-> "*.md", hook |-> "_clean_markdown"]>>
post_merge_hooks == <<[pattern |-> "*", hook |-> "_add_metadata_header"]>>

\* hook_func(...): what the hook returns, or that it raised.  Besides the two
\* default hooks there are hooks a plugin registers: append_a and append_b
\* return the content with a mark at its end, _bad raises.
CallHook(hook, content, file_name, sources) ==
    CASE hook = "_clean_markdown" ->
             [raised |-> FALSE, content |-> _clean_markdown(content)]
      [] hook = "_add_metadata_header" ->
             [raised |-> FALSE,
              content |-> _add_metadata_header(content, file_name, sources)]
      [] hook = "append_a" -> [raised |-> FALSE, content |-> Append(content, "a")]
      [] hook = "append_b" -> [raised |-> FALSE, content |-> Append(content, "b")]
      [] OTHER -> [raised |-> TRUE, content |-> content]

\* One iteration of the loop of _run_hook over the registry item h.  st is
\* [content, called, warned]: the content so far, the hooks called so far
\* each with the content it received, and the patterns logged with a hook
\* error.
\* Mutant: the hook is called whether or not its pattern matches.
RunHookStepAnyPattern(st, h, file_name, sources) ==
    LET r == CallHook(h.hook, st.content, file_name, sources)
    IN  [content |-> IF r.raised THEN st.content ELSE r.content,
         called |-> Append(st.called, [hook |-> h.hook, content |-> st.content]),
         warned |-> IF r.raised THEN Append(st.warned, h.pattern) ELSE st.warned]
\* Mutant: the content is lost when the hook raises.
RunHookStepRaiseClears(st, h, file_name, sources) ==
    IF ~fnmatch(file_name, h.pattern) THEN st
    ELSE LET r == CallHook(h.hook, st.content, file_name, sources)
         IN  [content |-> IF r.raised THEN <<>> ELSE r.content,
              called |-> Append(st.called, [hook |-> h.hook, content |-> st.content]),
              warned |-> IF r.raised THEN Append(st.warned, h.pattern) ELSE st.warned]
RunHookStep(st, h, file_name, sources) ==
    IF ~fnmatch(file_name, h.pattern) THEN st
    ELSE LET r == CallHook(h.hook, st.content, file_name, sources)
         IN  [content |-> IF r.raised THEN st.content ELSE r.content,
              called |-> Append(st.called, [hook |-> h.hook, content |-> st.content]),
              warned |-> IF r.raised THEN Append(st.warned, h.pattern) ELSE st.warned]

\* The loop over hooks.items(), in the insertion order of the dictionary.
RECURSIVE RunHookLoop(_, _, _, _)
RunHookLoop(st, hooks, file_name, sources) ==
    IF hooks = <<>> THEN st
    ELSE RunHookLoop(RunHookStep(st, Head(hooks), file_name, sources),
                     Tail(hooks), file_name, sources)

\* sources is <<>> for the pre-merge signature (sources=None).
_run_hook(hooks, file_name, content, sources) ==
    RunHookLoop([content |-> content, called |-> <<>>, warned |-> <<>>],
                hooks, file_name, sources).content

\* file_path.read_text() of the file a readable source holds for key k.
read_text(entry, k) == <<entry.name, k, " ">>

\* MergerRegistry.get_merger: the merger registered for the file's type.
get_merger(k) ==
    CASE Extension(k) = ".json" -> "JsonMerger"
      [] Extension(k) = ".md" -> "MarkdownMerger"
      [] OTHER -> "CopyMerger"

\* config.get("mergers", {}).get(merger_class.__name__, {})
merger_settings(merger) == <<"settings", merger>>

\* merger_class.merge(existing, new, source name, prior sources, **settings):
\* a pure function of its arguments.
MergerMerge(merger, existing, incoming, name, sources, settings) ==
    <<merger, "(">> \o existing \o <<"+">> \o incoming
        \o <<"from", name, "after">> \o sources \o settings \o <<")">>

\* Position of key k in the accumulator, 0 when it is not there.
AccIndex(acc, k) ==
    LET hits == {i \in 1..Len(acc) : acc[i].key = k}
    IN  IF hits = {} THEN 0 ELSE Min(hits)

\* Mutant: the incoming content is taken as the base of the merge.
ProcessFileSwapped(acc, entry, k) ==
    IF entry.files[k] = "unreadable" THEN acc
    ELSE LET content == _run_hook(pre_merge_hooks, k, read_text(entry, k), <<>>)
             i == AccIndex(acc, k)
         IN  IF i # 0 /\ entry.files[k] = "unmergeable" THEN acc
             ELSE IF i # 0
             THEN [acc EXCEPT ![i] =
                      [key |-> k,
                       content |-> MergerMerge(get_merger(k), content, acc[i].content,
                                               entry.name, acc[i].sources,
                                               merger_settings(get_merger(k))),
                       sources |-> Append(acc[i].sources, entry.name)]]
             ELSE Append(acc, [key |-> k, content |-> content,
                               sources |-> <<entry.name>>])
\* Mutant: the name of a source whose file does not merge is added to the
\* sources of the key all the same.
ProcessFileNamesFailedSource(acc, entry, k) ==
    IF entry.files[k] = "unreadable" THEN acc
    ELSE LET content == _run_hook(pre_merge_hooks, k, read_text(entry, k), <<>>)
             i == AccIndex(acc, k)
         IN  IF i # 0 /\ entry.files[k] = "unmergeable"
             THEN [acc EXCEPT ![i].sources = Append(@, entry.name)]
             ELSE IF i # 0
             THEN [acc EXCEPT ![i] =
                      [key |-> k,
                       content |-> MergerMerge(get_merger(k), acc[i].content, content,
                                               entry.name, acc[i].sources,
                                               merger_settings(get_merger(k))),
                       sources |-> Append(acc[i].sources, entry.name)]]
             ELSE Append(acc, [key |-> k, content |-> content,
                               sources |-> <<entry.name>>])
\* The body of the loop over the discovered files of one entry.  A file is
\* "ok", or "unreadable" (read_text raises), or "unmergeable" (the merger
\* raises when handed its content as the incoming one); the except clause
\* leaves the accumulator as it was.
ProcessFile(acc, entry, k) ==
    IF entry.files[k] = "unreadable" THEN acc
    ELSE LET content == _run_hook(pre_merge_hooks, k, read_text(entry, k), <<>>)
             i == AccIndex(acc, k)
         IN  IF i # 0 /\ entry.files[k] = "unmergeable" THEN acc
             ELSE IF i # 0
             THEN [acc EXCEPT ![i] =
                      [key |-> k,
                       content |-> MergerMerge(get_merger(k), acc[i].content, content,
                                               entry.name, acc[i].sources,
                                               merger_settings(get_merger(k))),
                       sources |-> Append(acc[i].sources, entry.name)]]
             ELSE Append(acc, [key |-> k, content |-> content,
                               sources |-> <<entry.name>>])

RECURSIVE ProcessFiles(_, _, _)
ProcessFiles(acc, entry, files) ==
    IF files = <<>> THEN acc
    ELSE ProcessFiles(ProcessFile(acc, entry, Head(files)), entry, Tail(files))

\* The orders in which rglob("*") may list the files of a directory.
RglobOrders == {<<"config.json", "rules.md">>, <<"rules.md", "config.json">>}

\* sorted(found_files)
sorted(found_files) ==
    LET Listed(k) == k \in Range(found_files)
    IN  SelectSeq(SortedKeys, Listed)

\* The files of the entry's scope subdirectory: those rglob lists, sorted.
_discover_files(entry, rglob) ==
    LET Found(k) == k \in Keys /\ entry.files[k] # "absent"
        found_files == SelectSeq(rglob, Found)
    IN  sorted(found_files)

_should_include_entry_for_scope(entry) == entry.scopes # "other"

\* ---- _discover_files over a directory tree.  A path is the sequence of its
\* components below <repo_path>/<agent directory>.
BASE_EXCLUDE_PATTERNS ==
    <<".git", ".gitignore", "__pycache__", "*.pyc", ".DS_Store", "README.md",
      "LICENSE", ".venv", "venv", "env", "node_modules", ".pytest_cache",
      ".ruff_cache", "*.egg-info">>

\* The regular files a source may hold in its agent directory.
FilePaths ==
    {<<"rules.md">>, <<"README.md">>, <<"agents", "JIRA.md">>, <<".git", "config">>,
     <<"node_modules", "config.json">>, <<"__pycache__", "agent.pyc">>}

\* The components of FilePaths as str orders them.
ComponentOrder ==
    <<".git", "JIRA.md", "README.md", "__pycache__", "agent.pyc", "agents",
      "config", "config.json", "node_modules", "rules.md">>

ComponentRank(c) == CHOOSE i \in 1..Len(ComponentOrder) : ComponentOrder[i] = c

\* Path.__lt__: the parts are compared as lists.
RECURSIVE PathLess(_, _)
PathLess(p, q) ==
    IF p = <<>> THEN q # <<>>
    ELSE IF q = <<>> THEN FALSE
    ELSE IF Head(p) = Head(q) THEN PathLess(Tail(p), Tail(q))
    ELSE ComponentRank(Head(p)) < ComponentRank(Head(q))

\* sorted() of a set of paths.
RECURSIVE SortPaths(_)
SortPaths(S) ==
    IF S = {} THEN <<>>
    ELSE LET least == CHOOSE p \in S : \A q \in S \ {p} : PathLess(p, q)
         IN  <<least>> \o SortPaths(S \ {least})

Reverse(s) == [i \in 1..Len(s) |-> s[Len(s) + 1 - i]]

\* The directories of a tree: the proper prefixes of its files.
Directories(files) ==
    UNION {{SubSeq(p, 1, n) : n \in 1..(Len(p) - 1)} : p \in files}

\* agent_repo_dir.rglob("*"): every directory and file below the agent
\* directory, in an order the file system chooses (here one order or its
\* reverse).
rglob_all(files, backwards) ==
    LET items == SortPaths(files \cup Directories(files))
    IN  IF backwards THEN Reverse(items) ELSE items

\* The loop of _discover_files over the items rglob lists and the sort that
\* follows; item.name is the last component.
DiscoverLoop(files, items, exclude_patterns) ==
    LET is_dir(item) == item \notin files
        should_exclude(item) ==
            \E i \in 1..Len(exclude_patterns) :
                fnmatch(item[Len(item)], exclude_patterns[i])
        Found(item) == ~is_dir(item) /\ ~should_exclude(item)
    IN  SortPaths(Range(SelectSeq(items, Found)))


\* The body of the loop over the hierarchy.
\* Mutant: the first file that cannot be processed ends the entry.
ProcessEntryStopAtFailure(acc, entry, rglob) ==
    IF ~_should_include_entry_for_scope(entry) THEN acc
    ELSE IF ~entry.exists THEN acc
    ELSE LET files == _discover_files(entry, rglob)
             bad == {i \in 1..Len(files) : entry.files[files[i]] # "ok"}
         IN  IF files = <<>> THEN acc
             ELSE IF bad = {} THEN ProcessFiles(acc, entry, files)
             ELSE ProcessFiles(acc, entry, SubSeq(files, 1, Min(bad) - 1))
\* Mutant: the scopes of the entry are not looked at.
ProcessEntryIgnoresScope(acc, entry, rglob) ==
    IF ~entry.exists THEN acc
    ELSE LET files == _discover_files(entry, rglob)
         IN  IF files = <<>> THEN acc ELSE ProcessFiles(acc, entry, files)
ProcessEntry(acc, entry, rglob) ==
    IF ~_should_include_entry_for_scope(entry) THEN acc
    ELSE IF ~entry.exists THEN acc
    ELSE LET files == _discover_files(entry, rglob)
         IN  IF files = <<>> THEN acc ELSE ProcessFiles(acc, entry, files)

\* What an applicable entry may hold for the two keys (first key, second
\* key): both readable, neither, one unreadable file next to a readable one,
\* and a file the merger rejects before a readable one.
SourceFiles ==
    {[k \in Keys |-> IF k = SortedKeys[1] THEN p[1] ELSE p[2]] :
         p \in {<<"ok", "ok">>, <<"absent", "absent">>,
                <<"unreadable", "ok">>, <<"unmergeable", "ok">>}}

\* The entries a hierarchy may hold under one name: applicable with files;
\* applicable with no local path; not applicable to the scope of the run.
SourceEntries(name) ==
    {[name |-> name, scopes |-> "all", exists |-> TRUE, files |-> f] :
         f \in SourceFiles}
    \cup {[name |-> name, scopes |-> "all", exists |-> FALSE,
           files |-> [k \in Keys |-> "absent"]]}
    \cup {[name |-> name, scopes |-> "other", exists |-> TRUE,
           files |-> [k \in Keys |-> "ok"]]}

Hierarchies ==
    {h \in [1..NumSources -> UNION {SourceEntries(SourceNames[i]) : i \in 1..NumSources}] :
         \A i \in 1..NumSources : h[i].name = SourceNames[i]}

\* ------------------------------------------------------------------------
\* config/config.py
\* ------------------------------------------------------------------------
\* Longest list of names a configuration holds.
MaxHierarchy == 2

RepoNames == {"org", "team"}

DirectoryPaths == {"HOME", "HOME/GIT/project"}

NameLists == UNION {[1..n -> RepoNames] : n \in 0..MaxHierarchy}

\* A configuration file: the names of repos in order (url and repo_type go
\* with the name), default_hierarchy ([] when the key is absent) and the
\* hierarchy of each directory ([] when the directory has none).  The files
\* somebody wrote by hand before the first Config call: one after the
\* template of generate_template, one with nothing in it, one whose
\* default_hierarchy names a repo that is not there.
HandWrittenConfigs ==
    {[exists |-> TRUE, repos |-> <<"org", "team">>,
      default_hierarchy |-> <<"org", "team">>,
      directories |-> [p \in {"HOME"} |-> <<>>]],
     [exists |-> TRUE, repos |-> <<>>, default_hierarchy |-> <<>>,
      directories |-> [p \in {} |-> <<>>]],
     [exists |-> TRUE, repos |-> <<"org">>, default_hierarchy |-> <<"team">>,
      directories |-> [p \in {} |-> <<>>]]}

\* Config.validate: TRUE when it raises no ConfigError.  A repo name may
\* appear once; every name of default_hierarchy and of a directory's
\* hierarchy is the name of a repo.
validate(c) ==
    /\ \A i, j \in 1..Len(c.repos) : c.repos[i] = c.repos[j] => i = j
    /\ Range(c.default_hierarchy) \subseteq Range(c.repos)
    /\ \A p \in DOMAIN c.directories :
           Range(c.directories[p]) \subseteq Range(c.repos)

\* Config.read, entered when the file exists: TRUE when it returns the
\* configuration, FALSE when it exits.
read(c) == validate(c)

\* Config.write: the file and the exit status it leaves.
write(c0, c) ==
    IF validate(c) THEN [config |-> c, exit |-> 0] ELSE [config |-> c0, exit |-> 1]

\* [n for n in names if n != name]
Without(names, name) ==
    LET Other(n) == n # name IN SelectSeq(names, Other)

\* The places that name the repo: "default_hierarchy" and directory paths.
references(c, name) ==
    {r \in {"default_hierarchy"} : name \in Range(c.default_hierarchy)}
        \cup {p \in DOMAIN c.directories : name \in Range(c.directories[p])}

\* Mutant: force removes the repo and leaves the hierarchies alone.
remove_repoNoCascade(c, name, forced) ==
    IF ~c.exists \/ ~read(c) THEN [config |-> c, exit |-> 1]
    ELSE IF name \notin Range(c.repos) THEN [config |-> c, exit |-> 1]
    ELSE IF references(c, name) # {} /\ ~forced THEN [config |-> c, exit |-> 1]
    ELSE write(c, [c EXCEPT !.repos = Without(@, name)])

\* Config.remove_repo(name, force)
remove_repo(c, name, forced) ==
    IF ~c.exists \/ ~read(c) THEN [config |-> c, exit |-> 1]
    ELSE IF name \notin Range(c.repos) THEN [config |-> c, exit |-> 1]
    ELSE IF references(c, name) # {} /\ ~forced THEN [config |-> c, exit |-> 1]
    ELSE LET removed == [c EXCEPT !.repos = Without(@, name)]
             cascaded ==
                 [removed EXCEPT
                      !.default_hierarchy = Without(@, name),
                      !.directories =
                          [p \in DOMAIN @ |-> Without(@[p], name)]]
         IN  write(c, IF forced /\ references(c, name) # {}
                      THEN cascaded ELSE removed)

\* Config.add_repo(name, url, repo_type) with a URL that a repo type accepts.
add_repo(c, name) ==
    IF ~c.exists \/ ~read(c) THEN [config |-> c, exit |-> 1]
    ELSE IF name \in Range(c.repos) THEN [config |-> c, exit |-> 1]
    ELSE write(c, [c EXCEPT !.repos = Append(@, name)])

\* Config.add_directory(path, dir_type, agents, hierarchy)
add_directory(c, path, names) ==
    IF ~c.exists \/ ~read(c) THEN [config |-> c, exit |-> 1]
    ELSE IF path \in DOMAIN c.directories THEN [config |-> c, exit |-> 1]
    ELSE write(c, [c EXCEPT !.directories =
                       [p \in DOMAIN @ \cup {path} |->
                            IF p = path THEN names ELSE @[p]]])

\* Config.remove_directory(path)
remove_directory(c, path) ==
    IF ~c.exists \/ ~read(c) THEN [config |-> c, exit |-> 1]
    ELSE IF path \notin DOMAIN c.directories THEN [config |-> c, exit |-> 1]
    ELSE write(c, [c EXCEPT !.directories =
                       [p \in DOMAIN @ \ {path} |-> @[p]]])

\* Config.set_defaults(repos=names)
set_defaults(c, names) ==
    IF ~c.exists \/ ~read(c) THEN [config |-> c, exit |-> 1]
    ELSE write(c, [c EXCEPT !.default_hierarchy = names])

\* ------------------------------------------------------------------------
\* State
\* ------------------------------------------------------------------------
VARIABLES
    manifest,      \* the manifest dictionary a caller of core/manifest.py holds
    disk,          \* the output directory: existing relative path -> content
    last,          \* the library call in progress: arguments, state before, result
    stored,        \* the document at <dir>/.agent-manager/manifest
    hierarchy,     \* config["hierarchy"]: the source entries, low to high priority
    force,         \* the --force flag of the run command
    pc,            \* "idle", "merge", "write"; "interrupted", "cleared" between runs
    runs,          \* completed runs of merge_configurations
    idx,           \* position of the hierarchy loop
    merged_files,  \* the accumulator, in insertion order: [key, content, sources]
    widx,          \* position of the write loop
    failed,        \* keys whose write raised in this run
    disk0,         \* the output directory as the run found it
    calls,         \* library calls made by the run so far, by function
    interrupted,   \* keys written by a run that was killed in its write loop
    stored0,       \* the manifest file as the run found it
    outputs,       \* what each clean run from an empty directory left behind
    config,        \* the configuration file: repos, default_hierarchy, directories
    produced       \* agent -> the keys its most recent run produced

storeVars == <<manifest, last>>
runVars == <<hierarchy, force, pc, runs, idx, merged_files, widx, failed, disk0, calls,
             interrupted, stored0, outputs>>
vars == <<manifest, disk, last, stored, hierarchy, force, pc, runs, idx,
          merged_files, widx, failed, disk0, calls, interrupted, stored0, outputs,
          config, produced>>

NoFiles == [k \in {} |-> <<>>]

\* No configuration file.
NoConfigFile ==
    [exists |-> FALSE, repos |-> <<>>, default_hierarchy |-> <<>>,
     directories |-> [p \in {} |-> <<>>]]

\* No agent has run.
NoneProduced == [a \in AgentNames |-> {}]

\* Calls of the manifest store, the safety evaluator and write_text counted
\* per run.
NoCalls ==
    [read_manifest |-> 0, write_manifest |-> 0, check_clobber |-> 0,
     should_write_file |-> 0, write_text |-> 0]

NoCall ==
    [op |-> "none", key |-> "", agent |-> "", repo |-> "none",
     current |-> {}, unlinkFails |-> {},
     manifest0 |-> _empty_manifest, disk0 |-> NoFiles,
     action |-> "", consulted |-> FALSE,
     force |-> FALSE, non_interactive |-> FALSE,
     write |-> FALSE, warned |-> FALSE,
     removed |-> FALSE, deleted |-> <<>>,
     raised |-> FALSE, doc |-> "", message |-> <<>>,
     hooks |-> <<>>, content |-> <<>>, sources |-> <<>>, result |-> <<>>,
     called |-> <<>>, logged |-> <<>>,
     path |-> "", configured |-> "", detected |-> "", validation |-> "",
     proceed |-> FALSE, files_type |-> "", managed |-> FALSE,
     exit_status |-> <<>>, config0 |-> NoConfigFile, names |-> <<>>,
     tree |-> {}, items |-> <<>>]

\* A call: the operation, and the manifest and directory it started from.
Call(op) == [NoCall EXCEPT !.op = op, !.manifest0 = manifest, !.disk0 = disk]

\* ------------------------------------------------------------------------
\* The manifest store and the safety evaluator, called in any order on one
\* output directory
\* ------------------------------------------------------------------------
InitManifest ==
    /\ manifest = _empty_manifest
    /\ disk = NoFiles
    /\ last = NoCall
    /\ stored = NoManifestFile
    /\ hierarchy = <<>>
    /\ force = FALSE
    /\ pc = "idle"
    /\ runs = 0
    /\ idx = 0
    /\ merged_files = <<>>
    /\ widx = 0
    /\ failed = {}
    /\ disk0 = NoFiles
    /\ calls = NoCalls
    /\ interrupted = {}
    /\ stored0 = stored
    /\ outputs = <<>>
    /\ config = NoConfigFile
    /\ produced = NoneProduced

\* Somebody other than the tool creates or edits a file of the directory.
UserEdit(k, c) ==
    /\ last.op = "none"
    /\ disk' = [x \in DOMAIN disk \cup {k} |-> IF x = k THEN c ELSE disk[x]]
    /\ UNCHANGED <<config, produced, manifest, last, stored, runVars>>

\* Somebody other than the tool deletes a file of the directory.
UserRemove(k) ==
    /\ last.op = "none"
    /\ k \in DOMAIN disk
    /\ disk' = [x \in DOMAIN disk \ {k} |-> disk[x]]
    /\ UNCHANGED <<config, produced, manifest, last, stored, runVars>>

AddOrUpdateEntry(k, a) ==
    /\ last.op = "none"
    /\ manifest' = add_or_update_entry(manifest, k, a, disk)
    /\ last' = [Call("add_or_update_entry") EXCEPT !.key = k, !.agent = a]
    /\ UNCHANGED <<config, produced, disk, stored, runVars>>

RemoveAgentFromEntry(k, a) ==
    /\ last.op = "none"
    /\ LET r == remove_agent_from_entry(manifest, k, a)
       IN  /\ manifest' = r.manifest
           /\ last' = [Call("remove_agent_from_entry") EXCEPT
                           !.key = k, !.agent = a, !.removed = r.removed]
    /\ UNCHANGED <<config, produced, disk, stored, runVars>>

CleanupStaleFiles(a, current_files, unlinkFails) ==
    /\ last.op = "none"
    /\ LET r == cleanup_stale_files(disk, manifest, a, current_files, unlinkFails)
       IN  /\ manifest' = r.manifest
           /\ disk' = r.disk
           /\ last' = [Call("cleanup_stale_files") EXCEPT
                           !.agent = a, !.current = current_files,
                           !.unlinkFails = unlinkFails, !.deleted = r.deleted]
    /\ UNCHANGED <<config, produced, stored, runVars>>

CheckClobber(k, repo) ==
    /\ last.op = "none"
    /\ LET c == check_clobber(k, disk, manifest, repo)
       IN  last' = [Call("check_clobber") EXCEPT
                        !.key = c.file_name, !.repo = repo,
                        !.action = c.action, !.consulted = c.consulted]
    /\ UNCHANGED <<config, produced, manifest, disk, stored, runVars>>

\* should_write_file applied to the verdict check_clobber just returned.
ShouldWriteFile(f, ni) ==
    /\ last.op = "check_clobber"
    /\ LET c == ClobberAction(last.action, last.key, "", last.consulted)
           r == should_write_file(c, f, ni)
       IN  last' = [last EXCEPT !.op = "should_write_file", !.force = f,
                                !.non_interactive = ni,
                                !.write = r.write, !.warned = r.warned,
                                !.message = r.message]
    /\ UNCHANGED <<config, produced, manifest, disk, stored, runVars>>

\* The call returns to its caller.
Return ==
    /\ last.op # "none"
    /\ last' = NoCall
    /\ UNCHANGED <<config, produced, manifest, disk, stored, runVars>>

NextManifest ==
    \/ \E k \in Keys, c \in UserFiles : UserEdit(k, c)
    \/ \E k \in Keys : UserRemove(k)
    \/ \E k \in Keys, a \in AgentNames : AddOrUpdateEntry(k, a)
    \/ \E k \in Keys, a \in AgentNames : RemoveAgentFromEntry(k, a)
    \/ \E a \in AgentNames, cur \in SUBSET Keys, uf \in SUBSET Keys :
           CleanupStaleFiles(a, cur, uf)
    \/ \E k \in Keys, repo \in RepoKinds : CheckClobber(k, repo)
    \/ \E f \in BOOLEAN, ni \in BOOLEAN : ShouldWriteFile(f, ni)
    \/ Return

SpecManifest == InitManifest /\ [][NextManifest]_vars

\* ------------------------------------------------------------------------
\* The hook pipeline and the directory-type gate, called on enumerated
\* arguments
\* ------------------------------------------------------------------------
\* Longest hook registry handed to _run_hook.
MaxHooks == 3

HookPatterns == {"*", "*.md", "*.json", "rules.md"}

HookNames == {"append_a", "append_b", "_clean_markdown", "_bad"}

\* The registries: a dictionary from pattern to hook in insertion order, so
\* no pattern occurs twice.
Registries ==
    UNION {{r \in [1..n -> [pattern : HookPatterns, hook : HookNames]] :
                \A i, j \in 1..n : i # j => r[i].pattern # r[j].pattern} :
           n \in 0..MaxHooks}

HookContents == {<<"text">>, <<"text", " ">>}

\* The sources argument: <<>> for a pre-merge call, the contributing sources
\* for a post-merge call.
HookSources == {<<>>, <<"org", "team">>}

\* _run_hook(hooks, file_name, content, entry, file_path, sources) called on
\* any registry, key, content and sources.
RunHook ==
    /\ last.op = "none"
    /\ \E hooks \in Registries, file_name \in Keys, content \in HookContents,
          sources \in HookSources :
           LET r == RunHookLoop([content |-> content, called |-> <<>>, warned |-> <<>>],
                                hooks, file_name, sources)
           IN  last' = [Call("_run_hook") EXCEPT
                            !.key = file_name, !.hooks = hooks, !.content = content,
                            !.sources = sources,
                            !.result = _run_hook(hooks, file_name, content, sources),
                            !.called = r.called, !.logged = r.warned]
    /\ UNCHANGED <<config, produced, manifest, disk, stored, runVars>>

ValidateDirectoryType(path, configured_type) ==
    /\ last.op = "none"
    /\ LET v == validate_directory_type(path, configured_type)
       IN  last' = [Call("validate_directory_type") EXCEPT
                        !.path = path, !.configured = configured_type,
                        !.detected = v.detected, !.validation = v.result]
    /\ UNCHANGED <<config, produced, manifest, disk, stored, runVars>>

\* should_proceed_on_type_mismatch applied to the validation just returned.
ShouldProceedOnTypeMismatch(f, ni) ==
    /\ last.op = "validate_directory_type"
    /\ LET v == TypeValidation(last.validation, last.configured, last.detected)
           r == should_proceed_on_type_mismatch(v, f, ni)
       IN  last' = [last EXCEPT !.op = "should_proceed_on_type_mismatch",
                                !.force = f, !.non_interactive = ni,
                                !.proceed = r.proceed, !.warned = r.warned]
    /\ UNCHANGED <<config, produced, manifest, disk, stored, runVars>>

\* _discover_files on a source whose agent directory holds the files of
\* tree; an absent or empty agent directory is the empty tree.
DiscoverFiles(tree, backwards) ==
    /\ last.op = "none"
    /\ last' = [Call("_discover_files") EXCEPT
                    !.tree = tree, !.items = rglob_all(tree, backwards),
                    !.result = DiscoverLoop(tree, rglob_all(tree, backwards),
                                            BASE_EXCLUDE_PATTERNS)]
    /\ UNCHANGED <<config, produced, manifest, disk, stored, runVars>>

NextCalls ==
    \/ RunHook
    \/ \E tree \in SUBSET FilePaths, backwards \in BOOLEAN :
           DiscoverFiles(tree, backwards)
    \/ \E path \in PathKinds, t \in ConfiguredTypes : ValidateDirectoryType(path, t)
    \/ \E f \in BOOLEAN, ni \in BOOLEAN : ShouldProceedOnTypeMismatch(f, ni)
    \/ Return

SpecCalls == InitManifest /\ [][NextCalls]_vars

\* ------------------------------------------------------------------------
\* The manifest file of one output directory, read and written by the tool
\* and damaged from outside
\* ------------------------------------------------------------------------
\* Values of datetime.now() as write_manifest sees them.
Timestamps == {1, 2}

InitStore ==
    /\ manifest = _empty_manifest
    /\ disk \in UNION {[S -> {<<"user", "v1">>}] : S \in SUBSET Keys}
    /\ last = NoCall
    /\ stored \in {BadManifestFile(k) : k \in DocKinds \ {"mapping"}}
    /\ hierarchy = <<>>
    /\ force = FALSE
    /\ pc = "idle"
    /\ runs = 0
    /\ idx = 0
    /\ merged_files = <<>>
    /\ widx = 0
    /\ failed = {}
    /\ disk0 = NoFiles
    /\ calls = NoCalls
    /\ interrupted = {}
    /\ stored0 = stored
    /\ outputs = <<>>
    /\ config = NoConfigFile
    /\ produced = NoneProduced

\* Manifest files written by hand that are YAML mappings: files null, files a
\* scalar, no files key.
HandWrittenTexts ==
    {<<"files:", "null">>,
     <<"last_synced:", "null", "files:", "oops">>,
     <<"last_synced:", "null">>}

\* read_manifest(base_directory); the caller holds the result when there is
\* one.  A result whose files is not a list is outside what manifest can
\* hold: it is kept in last, where IsManaged finds it.
ReadManifest(existsRaises) ==
    /\ last.op = "none"
    /\ LET raised == read_manifest_raises(stored, existsRaises)
           type == read_manifest_files_type(stored)
       IN  /\ manifest' = IF raised \/ type # "list" THEN manifest
                           ELSE read_manifest(stored)
           /\ last' = [Call("read_manifest") EXCEPT
                           !.doc = stored.kind, !.raised = raised,
                           !.warned = ~raised /\ read_manifest_warns(stored),
                           !.files_type = IF raised THEN "" ELSE type]
    /\ UNCHANGED <<config, produced, disk, stored, runVars>>

\* is_managed(manifest, k) on the dictionary read_manifest has just
\* returned.
IsManaged(k) ==
    /\ last.op = "read_manifest"
    /\ ~last.raised
    /\ LET raised == get_manifest_entry_raises(last.files_type)
       IN  last' = [Call("is_managed") EXCEPT
                       !.key = k, !.doc = last.doc,
                       !.files_type = last.files_type,
                       !.raised = raised,
                       !.managed = ~raised /\ is_managed(manifest, k)]
    /\ UNCHANGED <<config, produced, manifest, disk, stored, runVars>>

\* write_manifest(base_directory, manifest) at time t; last_synced is set in
\* the caller's dictionary before anything is written.  mkdir(parents=True,
\* exist_ok=True) creates a missing .agent-manager directory; mkdir or open
\* raises OSError when writeRaises says so for a directory or a file that
\* cannot be reached.
WriteManifest(t, writeRaises) ==
    /\ last.op = "none"
    /\ LET raised == writeRaises /\ stored.kind \in {"inaccessible", "unreadable"}
       IN  /\ stored' = IF raised THEN stored ELSE write_manifest(manifest, t)
           /\ last' = [Call("write_manifest") EXCEPT
                           !.doc = stored.kind, !.raised = raised]
    /\ manifest' = [manifest EXCEPT !.last_synced = t]
    /\ UNCHANGED <<config, produced, disk, runVars>>

\* Somebody other than the tool removes, locks away or overwrites the
\* manifest file.
DamageManifest(k) ==
    /\ last.op = "none"
    /\ stored # BadManifestFile(k)
    /\ stored' = BadManifestFile(k)
    /\ UNCHANGED <<config, produced, manifest, disk, last, runVars>>

\* Somebody other than the tool writes the manifest file by hand.
EditManifest(text) ==
    /\ last.op = "none"
    /\ stored # [kind |-> "mapping", data |-> text]
    /\ stored' = [kind |-> "mapping", data |-> text]
    /\ UNCHANGED <<config, produced, manifest, disk, last, runVars>>

NextStore ==
    \/ \E existsRaises \in BOOLEAN : ReadManifest(existsRaises)
    \/ \E k \in Keys : IsManaged(k)
    \/ \E t \in Timestamps, writeRaises \in BOOLEAN : WriteManifest(t, writeRaises)
    \/ \E k \in DocKinds \ {"mapping"} : DamageManifest(k)
    \/ \E text \in HandWrittenTexts : EditManifest(text)
    \/ \E k \in Keys, a \in AgentNames : AddOrUpdateEntry(k, a)
    \/ Return

SpecStore == InitStore /\ [][NextStore]_vars

\* ------------------------------------------------------------------------
\* Agents that share one output directory and keep the manifest as a ledger
\* ------------------------------------------------------------------------
\* add_or_update_entry for each written key, in the order of the write loop.
RECURSIVE UpsertAll(_, _, _, _)
UpsertAll(m, ks, a, d) ==
    IF ks = <<>> THEN m
    ELSE UpsertAll(add_or_update_entry(m, Head(ks), a, d), Tail(ks), a, d)

\* One run of agent a that produces keys: it reads the manifest, writes its
\* files, upserts an entry for each, calls cleanup_stale_files with the keys
\* it produced and writes the manifest at time t.
AgentRun(a, keys, unlinkFails, t) ==
    /\ last.op = "none"
    /\ LET written == [x \in DOMAIN disk \cup keys |->
                           IF x \in keys THEN <<"merged", a>> ELSE disk[x]]
           upserted == UpsertAll(read_manifest(stored),
                                 SelectSeq(SortedKeys, LAMBDA k : k \in keys),
                                 a, written)
           r == cleanup_stale_files(written, upserted, a, keys, unlinkFails)
       IN  /\ disk' = r.disk
           /\ manifest' = [r.manifest EXCEPT !.last_synced = t]
           /\ stored' = write_manifest(r.manifest, t)
           /\ last' = [Call("agent_run") EXCEPT
                           !.agent = a, !.current = keys,
                           !.unlinkFails = unlinkFails, !.deleted = r.deleted]
    /\ produced' = [produced EXCEPT ![a] = keys]
    /\ UNCHANGED <<runVars, config>>

NextLedger ==
    \/ \E a \in AgentNames, keys \in SUBSET Keys, unlinkFails \in SUBSET Keys,
          t \in Timestamps : AgentRun(a, keys, unlinkFails, t)
    \/ \E k \in Keys : UserRemove(k)
    \/ Return

SpecLedger == InitManifest /\ [][NextLedger]_vars

\* ------------------------------------------------------------------------
\* The configuration file, written by hand and changed through Config
\* ------------------------------------------------------------------------
InitConfig ==
    /\ manifest = _empty_manifest
    /\ disk = NoFiles
    /\ last = NoCall
    /\ stored = NoManifestFile
    /\ hierarchy = <<>>
    /\ force = FALSE
    /\ pc = "idle"
    /\ runs = 0
    /\ idx = 0
    /\ merged_files = <<>>
    /\ widx = 0
    /\ failed = {}
    /\ disk0 = NoFiles
    /\ calls = NoCalls
    /\ interrupted = {}
    /\ stored0 = stored
    /\ outputs = <<>>
    /\ config \in HandWrittenConfigs \cup {NoConfigFile}
    /\ produced = NoneProduced

RemoveRepo(name, f) ==
    /\ last.op = "none"
    /\ config' = remove_repo(config, name, f).config
    /\ last' = [Call("remove_repo") EXCEPT
                    !.key = name, !.force = f, !.config0 = config,
                    !.raised = remove_repo(config, name, f).exit # 0]
    /\ UNCHANGED <<manifest, disk, stored, runVars, produced>>

AddRepo(name) ==
    /\ last.op = "none"
    /\ config' = add_repo(config, name).config
    /\ last' = [Call("add_repo") EXCEPT
                    !.key = name, !.config0 = config,
                    !.raised = add_repo(config, name).exit # 0]
    /\ UNCHANGED <<manifest, disk, stored, runVars, produced>>

AddDirectory(path, names) ==
    /\ last.op = "none"
    /\ config' = add_directory(config, path, names).config
    /\ last' = [Call("add_directory") EXCEPT
                    !.key = path, !.names = names, !.config0 = config,
                    !.raised = add_directory(config, path, names).exit # 0]
    /\ UNCHANGED <<manifest, disk, stored, runVars, produced>>

RemoveDirectory(path) ==
    /\ last.op = "none"
    /\ config' = remove_directory(config, path).config
    /\ last' = [Call("remove_directory") EXCEPT
                    !.key = path, !.config0 = config,
                    !.raised = remove_directory(config, path).exit # 0]
    /\ UNCHANGED <<manifest, disk, stored, runVars, produced>>

SetDefaults(names) ==
    /\ last.op = "none"
    /\ config' = set_defaults(config, names).config
    /\ last' = [Call("set_defaults") EXCEPT
                    !.names = names, !.config0 = config,
                    !.raised = set_defaults(config, names).exit # 0]
    /\ UNCHANGED <<manifest, disk, stored, runVars, produced>>

NextConfig ==
    \/ \E name \in RepoNames, f \in BOOLEAN : RemoveRepo(name, f)
    \/ \E name \in RepoNames : AddRepo(name)
    \/ \E path \in DirectoryPaths, names \in NameLists : AddDirectory(path, names)
    \/ \E path \in DirectoryPaths : RemoveDirectory(path)
    \/ \E names \in NameLists : SetDefaults(names)
    \/ Return

SpecConfig == InitConfig /\ [][NextConfig]_vars

\* ------------------------------------------------------------------------
\* Runs of merge_configurations against one output directory
\* ------------------------------------------------------------------------
\* The manifest after agent a recorded the keys of the sequence ks.
RECURSIVE ManifestOf(_, _, _)
ManifestOf(ks, a, d) ==
    IF ks = <<>> THEN _empty_manifest
    ELSE add_or_update_entry(ManifestOf(SubSeq(ks, 1, Len(ks) - 1), a, d),
                             ks[Len(ks)], a, d)

\* The output directories a run may find: a fresh one; one that holds a file
\* of the user and was never synced; one whose manifest lists the first key
\* for the agent while the other key is a file of the user.
InitialDirectories ==
    LET user == <<"user", "v1">>
        both == [k \in Keys |-> user]
    IN  {[disk |-> NoFiles, stored |-> NoManifestFile],
         [disk |-> [k \in {SortedKeys[2]} |-> user], stored |-> NoManifestFile],
         [disk |-> both,
          stored |-> write_manifest(ManifestOf(<<SortedKeys[1]>>, AgentName, both), 1)]}

Init ==
    /\ manifest = _empty_manifest
    /\ last = NoCall
    /\ \E d \in InitialDirectories : disk = d.disk /\ stored = d.stored
    /\ hierarchy \in Hierarchies
    /\ force = FALSE
    /\ pc = "idle"
    /\ runs = 0
    /\ idx = 0
    /\ merged_files = <<>>
    /\ widx = 0
    /\ failed = {}
    /\ disk0 = disk
    /\ calls = NoCalls
    /\ interrupted = {}
    /\ stored0 = stored
    /\ outputs = <<>>
    /\ config = NoConfigFile
    /\ produced = NoneProduced

\* process_cli_command takes force (f) and non_interactive (ni) from the
\* parsed arguments and calls run_agents without them; merge_configurations
\* is entered.
StartRun(f, ni) ==
    /\ pc \in {"idle", "interrupted", "cleared"}
    /\ runs < MaxRuns
    /\ force' = f
    /\ last' = [Call("run") EXCEPT !.force = f, !.non_interactive = ni]
    /\ pc' = "merge"
    /\ idx' = 1
    /\ merged_files' = <<>>
    /\ widx' = 0
    /\ failed' = {}
    /\ disk0' = disk
    /\ calls' = NoCalls
    /\ stored0' = stored
    /\ UNCHANGED <<config, produced, manifest, disk, stored, hierarchy, runs, interrupted, outputs>>

\* One iteration of the loop over config["hierarchy"]; rglob is the order in
\* which the file system lists the files of the entry.
ProcessHierarchyEntry(rglob) ==
    /\ pc = "merge"
    /\ idx <= Len(hierarchy)
    /\ merged_files' = ProcessEntry(merged_files, hierarchy[idx], rglob)
    /\ idx' = idx + 1
    /\ pc' = IF idx = Len(hierarchy) THEN "write" ELSE "merge"
    /\ widx' = IF idx = Len(hierarchy) THEN 1 ELSE widx
    /\ UNCHANGED <<config, produced, manifest, disk, last, stored, hierarchy, force, runs,
                   failed, disk0, calls, interrupted, stored0, outputs>>

\* One iteration of the loop over merged_files; ok is whether mkdir and
\* write_text went through.
\* Mutant: the content written carries a mark of the run that wrote it.
WriteMergedFileStamped(ok) ==
    /\ pc = "write"
    /\ widx <= Len(merged_files)
    /\ LET e == merged_files[widx]
           content == <<IF runs = 0 THEN "first run" ELSE "later run">>
                          \o _run_hook(post_merge_hooks, e.key, e.content, e.sources)
       IN  /\ disk' = IF ok
                      THEN [x \in DOMAIN disk \cup {e.key} |->
                                IF x = e.key THEN content ELSE disk[x]]
                      ELSE disk
           /\ failed' = IF ok THEN failed ELSE failed \cup {e.key}
    /\ calls' = [calls EXCEPT !.write_text = @ + 1]
    /\ widx' = widx + 1
    /\ UNCHANGED <<config, produced, manifest, last, stored, hierarchy, force, pc, runs, idx,
                   merged_files, disk0, interrupted, stored0, outputs>>
\* Mutant: a failed write ends the write loop.
WriteMergedFileAbortsOnFailure(ok) ==
    /\ pc = "write"
    /\ widx <= Len(merged_files)
    /\ LET e == merged_files[widx]
           content == _run_hook(post_merge_hooks, e.key, e.content, e.sources)
       IN  /\ disk' = IF ok
                      THEN [x \in DOMAIN disk \cup {e.key} |->
                                IF x = e.key THEN content ELSE disk[x]]
                      ELSE disk
           /\ failed' = IF ok THEN failed ELSE failed \cup {e.key}
    /\ calls' = [calls EXCEPT !.write_text = @ + 1]
    /\ widx' = IF ok THEN widx + 1 ELSE Len(merged_files) + 1
    /\ UNCHANGED <<config, produced, manifest, last, stored, hierarchy, force, pc, runs, idx,
                   merged_files, disk0, interrupted, stored0, outputs>>
WriteMergedFile(ok) ==
    /\ pc = "write"
    /\ widx <= Len(merged_files)
    /\ LET e == merged_files[widx]
           content == _run_hook(post_merge_hooks, e.key, e.content, e.sources)
       IN  /\ disk' = IF ok
                      THEN [x \in DOMAIN disk \cup {e.key} |->
                                IF x = e.key THEN content ELSE disk[x]]
                      ELSE disk
           /\ failed' = IF ok THEN failed ELSE failed \cup {e.key}
    /\ calls' = [calls EXCEPT !.write_text = @ + 1]
    /\ widx' = widx + 1
    /\ UNCHANGED <<config, produced, manifest, last, stored, hierarchy, force, pc, runs, idx,
                   merged_files, disk0, interrupted, stored0, outputs>>

\* The write loop is over.
WriteLoopDone == pc = "write" /\ widx > Len(merged_files)

\* The run started from an empty output directory and no write failed.
CleanRunFromEmpty ==
    disk0 = NoFiles /\ stored0 = NoManifestFile /\ failed = {}

\* merge_configurations returns, and with it update, run_agents,
\* process_cli_command and main: the process ends with status 0.
FinishRun ==
    /\ WriteLoopDone
    /\ pc' = "idle"
    /\ runs' = runs + 1
    /\ outputs' = IF CleanRunFromEmpty
                  THEN Append(outputs, [files |-> disk,
                                        order |-> [i \in 1..Len(merged_files) |->
                                                       merged_files[i].key],
                                        entries |-> read_manifest(stored).files])
                  ELSE outputs
    /\ last' = [last EXCEPT !.exit_status = <<0>>]
    /\ UNCHANGED <<config, produced, manifest, disk, stored, hierarchy, force, idx,
                   merged_files, widx, failed, disk0, calls, interrupted, stored0>>

\* Between two runs somebody empties the output directory, the manifest
\* file included.
ResetOutput ==
    /\ pc = "idle"
    /\ runs > 0
    /\ disk # NoFiles \/ stored # NoManifestFile
    /\ disk' = NoFiles
    /\ stored' = NoManifestFile
    /\ interrupted' = {}
    /\ pc' = "cleared"
    /\ UNCHANGED <<config, produced, manifest, last, hierarchy, force, runs, idx, merged_files, widx,
                   failed, disk0, calls, stored0, outputs>>

\* The keys the write loop has written so far in this run.
WrittenKeys == {merged_files[i].key : i \in 1..(widx - 1)} \ failed

\* The process is killed in the write loop after it wrote at least one file;
\* this happens to a directory at most once.
Interrupt ==
    /\ pc = "write"
    /\ interrupted = {}
    /\ WrittenKeys # {}
    /\ interrupted' = WrittenKeys
    /\ pc' = "interrupted"
    /\ UNCHANGED <<config, produced, manifest, disk, last, stored, hierarchy, force, runs, idx,
                   merged_files, widx, failed, disk0, calls, stored0, outputs>>

Next ==
    \/ \E f \in BOOLEAN, ni \in BOOLEAN : StartRun(f, ni)
    \/ \E rglob \in RglobOrders : ProcessHierarchyEntry(rglob)
    \/ \E ok \in BOOLEAN : WriteMergedFile(ok)
    \/ FinishRun
    \/ Interrupt
    \/ ResetOutput

Spec == Init /\ [][Next]_vars

RunCompleted == pc = "idle" /\ runs > 0

\* ------------------------------------------------------------------------
\* Properties of the safety evaluator
\* ------------------------------------------------------------------------
\* The verdict the decision tree of the specification gives.
VerdictFor(k, repo) ==
    IF is_managed(manifest, k) THEN SAFE
    ELSE IF k \notin DOMAIN disk THEN NEW_FILE
    ELSE IF repo = "recoverable" THEN CLOBBER_RECOVERABLE
    ELSE CLOBBER_RISKY

\* C2: check_clobber returns exactly one of the four verdicts: SAFE when the
\* key is in the manifest, else NEW_FILE when no file exists, else
\* CLOBBER_RECOVERABLE when a repo is given and its oracle answers true, else
\* CLOBBER_RISKY (also when no repo is given).
C2_VerdictTotal ==
    last.op = "check_clobber" =>
        /\ last.action \in ClobberActions
        /\ last.action = VerdictFor(last.key, last.repo)

C2_Witness ==
    /\ last.op = "check_clobber"
    /\ last.repo = "none"
    /\ last.action = CLOBBER_RISKY

\* C3: should_write_file answers True for SAFE and NEW_FILE whatever the
\* flags, and for the two clobber verdicts answers True exactly when force is
\* set; non_interactive has no influence.
C3_WriteIffSafeOrForce ==
    last.op = "should_write_file" =>
        last.write = (last.action \in {SAFE, NEW_FILE} \/ last.force)

C3_Witness ==
    /\ last.op = "should_write_file"
    /\ last.action = CLOBBER_RISKY
    /\ last.force
    /\ last.non_interactive
    /\ last.write

\* C4: a key that has a manifest entry gets SAFE whatever the directory holds
\* (no file, or a file whose hash differs from the recorded one), and the
\* recoverability oracle is not asked.
C4_ManagedAlwaysSafe ==
    (last.op = "check_clobber" /\ is_managed(manifest, last.key)) =>
        (last.action = SAFE /\ ~last.consulted)

C4_Witness ==
    /\ last.op = "check_clobber"
    /\ last.repo # "none"
    /\ is_managed(manifest, last.key)
    /\ last.key \in DOMAIN disk
    /\ manifest.files[get_manifest_entry(manifest, last.key)].hash
           \notin {<<>>, _file_hash(disk, last.key)}
    /\ last.action = SAFE

\* ------------------------------------------------------------------------
\* Properties of the manifest store
\* ------------------------------------------------------------------------
\* C5: starting from the empty manifest, no entry ever has an empty agents
\* list.
C5_NoEmptyAgents ==
    \A i \in 1..Len(manifest.files) : manifest.files[i].agents # <<>>

C5_Witness ==
    /\ last.op = "remove_agent_from_entry"
    /\ last.removed
    /\ manifest.files # <<>>

\* The entries of m that list agent a and are not among the current files.
StaleEntries(m, a, current_files) ==
    {e \in Range(m.files) : a \in Range(e.agents) /\ e.name \notin current_files}

\* What cleanup does to the stale entries other agents also own: only the
\* agent leaves the entry and the file stays as it is.
SharedStaleKept ==
    \A e \in StaleEntries(last.manifest0, last.agent, last.current) :
        Range(e.agents) # {last.agent} =>
            /\ is_managed(manifest, e.name)
            /\ manifest.files[get_manifest_entry(manifest, e.name)]
                   = [e EXCEPT !.agents = RemoveFirst(@, last.agent)]
            /\ (e.name \in DOMAIN last.disk0 =>
                    e.name \in DOMAIN disk /\ disk[e.name] = last.disk0[e.name])

\* C6 as stated: every stale entry whose only owner is the agent is removed
\* and its file is gone from the directory; a shared stale entry only loses
\* the agent and keeps its file.
C6_Original ==
    last.op = "cleanup_stale_files" =>
        /\ \A e \in StaleEntries(last.manifest0, last.agent, last.current) :
               Range(e.agents) = {last.agent} =>
                   /\ ~is_managed(manifest, e.name)
                   /\ e.name \notin DOMAIN disk
        /\ SharedStaleKept

\* C6 amended: every stale entry whose only owner is the agent is removed
\* from the manifest, and its file is gone from the directory unless the
\* unlink raised OSError, in which case the file stays as it was; a shared
\* stale entry only loses the agent and keeps its file.
C6_StaleRetired ==
    last.op = "cleanup_stale_files" =>
        /\ \A e \in StaleEntries(last.manifest0, last.agent, last.current) :
               Range(e.agents) = {last.agent} =>
                   /\ ~is_managed(manifest, e.name)
                   /\ e.name \notin last.unlinkFails => e.name \notin DOMAIN disk
                   /\ (e.name \in last.unlinkFails /\ e.name \in DOMAIN last.disk0) =>
                          (e.name \in DOMAIN disk
                               /\ disk[e.name] = last.disk0[e.name])
        /\ SharedStaleKept

\* A sole-owned stale file was unlinked while a shared stale entry lost the
\* agent.
C6_Witness ==
    /\ last.op = "cleanup_stale_files"
    /\ last.deleted # <<>>
    /\ \E e \in StaleEntries(last.manifest0, last.agent, last.current) :
           Range(e.agents) # {last.agent} /\ e.name \in DOMAIN last.disk0

\* C7: cleanup leaves every entry that does not list the agent, and every
\* entry named in current_files, as it was and in the same order; it deletes
\* a file only when the key had an entry whose sole owner was the agent; it
\* creates and modifies no file; a file without a manifest entry stays.
C7_CleanupFrame ==
    last.op = "cleanup_stale_files" =>
        LET m0 == last.manifest0
            d0 == last.disk0
            kept == {e.name : e \in Range(m0.files)}
                        \ {e.name : e \in StaleEntries(m0, last.agent, last.current)}
            Kept(e) == e.name \in kept
        IN  /\ SelectSeq(manifest.files, Kept) = SelectSeq(m0.files, Kept)
            /\ manifest.last_synced = m0.last_synced
            /\ DOMAIN disk \subseteq DOMAIN d0
            /\ \A k \in DOMAIN disk : disk[k] = d0[k]
            /\ \A k \in DOMAIN d0 \ DOMAIN disk :
                   \E e \in Range(m0.files) :
                       e.name = k /\ Range(e.agents) = {last.agent}
            /\ \A k \in DOMAIN d0 :
                   ~is_managed(m0, k) => (k \in DOMAIN disk /\ disk[k] = d0[k])

\* Cleanup deleted a stale file while a file without a manifest entry and an
\* entry of another agent were in the directory.
C7_Witness ==
    /\ last.op = "cleanup_stale_files"
    /\ last.deleted # <<>>
    /\ \E k \in DOMAIN last.disk0 : ~is_managed(last.manifest0, k)

\* ------------------------------------------------------------------------
\* Properties of the merge engine
\* ------------------------------------------------------------------------
\* C1: while merge_configurations runs without force, a file the output
\* directory already held and the manifest does not list keeps its content.
C1_UnmanagedFilesKept ==
    \A k \in DOMAIN disk0 :
        (pc # "cleared" /\ ~force /\ ~is_managed(read_manifest(stored), k)) =>
            (k \in DOMAIN disk /\ disk[k] = disk0[k])

\* C8: once a run has completed and written every key it produced, every
\* such key gets SAFE from check_clobber against the manifest file of the
\* directory, so a second run over the same sources meets no clobber.
C8_SecondRunAllSafe ==
    (RunCompleted /\ failed = {}) =>
        \A i \in 1..Len(merged_files), repo \in RepoKinds :
            check_clobber(merged_files[i].key, disk, read_manifest(stored), repo).action
                = SAFE

\* The positions of the hierarchy entries that contribute a file for key k:
\* applicable to the scope, present, and holding a file that is readable and
\* either merges or is the first one for the key (which is taken as it is).
Contributors(k) ==
    LET Holds(i) == /\ hierarchy[i].scopes # "other"
                    /\ hierarchy[i].exists
                    /\ hierarchy[i].files[k] \in {"ok", "unmergeable"}
        Gives(i) == /\ Holds(i)
                    /\ \/ hierarchy[i].files[k] = "ok"
                       \/ \A j \in 1..(i - 1) : ~Holds(j)
    IN  SelectSeq([i \in 1..Len(hierarchy) |-> i], Gives)

PreHooked(entry, k) == _run_hook(pre_merge_hooks, k, read_text(entry, k), <<>>)

\* C9: when exactly a lower entry L and a higher entry H contribute key k,
\* the accumulated content is merge(pre-hooked L, pre-hooked H, H.name,
\* [L.name], settings) and the sources are [L.name, H.name], wherever the
\* key stands among the files of each source.
C9_PriorityLaw ==
    (pc = "write" \/ RunCompleted) =>
        \A k \in Keys :
            LET c == Contributors(k)
            IN  Len(c) = 2 =>
                    LET L == hierarchy[c[1]]
                        H == hierarchy[c[2]]
                        i == AccIndex(merged_files, k)
                    IN  /\ i # 0
                        /\ merged_files[i].sources = <<L.name, H.name>>
                        /\ merged_files[i].content =
                               MergerMerge(get_merger(k), PreHooked(L, k),
                                           PreHooked(H, k), H.name, <<L.name>>,
                                           merger_settings(get_merger(k)))

\* Both keys were merged from two sources, the pre-merge hook acting on one
\* of them only.
C9_Witness ==
    /\ pc = "write"
    /\ \A k \in Keys : Len(Contributors(k)) = 2
    /\ Len(merged_files) = 2

\* C10: a completed run has read the manifest once and written it once, and
\* never writes it before the write loop is over.
C10_ManifestReadAndWrittenOnce ==
    /\ RunCompleted => (calls.read_manifest = 1 /\ calls.write_manifest = 1)
    /\ pc # "idle" => calls.write_manifest = 0

\* C11: when a run was killed after writing a file the manifest file does not
\* list, the next run finds the file absent from the manifest it reads,
\* check_clobber gives CLOBBER_RECOVERABLE or CLOBBER_RISKY for it, and
\* without force the run does not write it.
C11_InterruptedFilesSkipped ==
    \A k \in interrupted :
        (pc \in {"merge", "write"} /\ ~is_managed(read_manifest(stored), k)) =>
            /\ \A repo \in RepoKinds :
                   check_clobber(k, disk0, read_manifest(stored), repo).action
                       \in {CLOBBER_RECOVERABLE, CLOBBER_RISKY}
            /\ ~force => k \notin WrittenKeys

\* C12: read_manifest never raises; for a manifest file that is missing,
\* cannot be reached or read, is not YAML or is not a mapping it returns the
\* empty manifest, and it warns whenever reading or parsing failed.
C12_ReadNeverRaises ==
    last.op = "read_manifest" =>
        /\ ~last.raised
        /\ last.doc # "mapping" => manifest = _empty_manifest
        /\ last.doc \in {"unreadable", "unparseable"} => last.warned

\* C13: add_or_update_entry appends the entry [name, [agent], hash] when the
\* key has none; when it has one, the agent is appended to its agents only if
\* it is not there yet and the hash becomes the hash of the file now on disk;
\* afterwards the key has exactly one entry and every other entry, and
\* last_synced, are as before.
C13_AddOrUpdateEntry ==
    last.op = "add_or_update_entry" =>
        LET m0 == last.manifest0
            k == last.key
            a == last.agent
            i0 == get_manifest_entry(m0, k)
            h == _file_hash(last.disk0, k)
        IN  /\ i0 = 0 =>
                   manifest.files
                       = Append(m0.files, [name |-> k, agents |-> <<a>>, hash |-> h])
            /\ i0 # 0 =>
                   /\ Len(manifest.files) = Len(m0.files)
                   /\ manifest.files[i0] =
                          [name |-> k,
                           agents |-> IF a \in Range(m0.files[i0].agents)
                                      THEN m0.files[i0].agents
                                      ELSE Append(m0.files[i0].agents, a),
                           hash |-> h]
                   /\ \A j \in 1..Len(m0.files) :
                          j # i0 => manifest.files[j] = m0.files[j]
            /\ Cardinality({j \in 1..Len(manifest.files) : manifest.files[j].name = k}) = 1
            /\ manifest.last_synced = m0.last_synced
            /\ disk = last.disk0

\* An agent already listed writes a file again after its content changed,
\* while the manifest holds another entry.
C13_Witness ==
    /\ last.op = "add_or_update_entry"
    /\ LET i0 == get_manifest_entry(last.manifest0, last.key)
       IN  /\ i0 # 0
           /\ last.agent \in Range(last.manifest0.files[i0].agents)
           /\ last.manifest0.files[i0].hash # _file_hash(disk, last.key)
           /\ last.key \in DOMAIN disk
    /\ Len(manifest.files) = 2

\* ------------------------------------------------------------------------
\* Properties of the hook pipeline
\* ------------------------------------------------------------------------
\* The registry items whose pattern matches the file name of the call, in
\* registry order.
MatchingHooks ==
    LET Matches(h) == fnmatch(last.key, h.pattern)
    IN  SelectSeq(last.hooks, Matches)

\* What the i-th called hook did with the content it received.
HookOutcome(i) ==
    CallHook(last.called[i].hook, last.called[i].content, last.key, last.sources)

\* The content the pipeline holds after the i-th call.
ContentAfter(i) ==
    IF i = Len(last.called) THEN last.result ELSE last.called[i + 1].content

\* C14: _run_hook calls exactly the hooks whose pattern matches the file
\* name, in registry order; the first receives the content passed in, each
\* hook that returns hands its result to the next matching hook, and the
\* result of the last is returned; with no matching hook the content comes
\* back unchanged.
C14_MatchingHooksChained ==
    last.op = "_run_hook" =>
        /\ Len(last.called) = Len(MatchingHooks)
        /\ \A i \in 1..Len(last.called) : last.called[i].hook = MatchingHooks[i].hook
        /\ last.called # <<>> => last.called[1].content = last.content
        /\ last.called = <<>> => last.result = last.content
        /\ \A i \in 1..Len(last.called) :
               ~HookOutcome(i).raised => ContentAfter(i) = HookOutcome(i).content

\* Two hooks that do not commute were chained around a registry item whose
\* pattern does not match.
C14_Witness ==
    /\ last.op = "_run_hook"
    /\ Len(last.hooks) = 3
    /\ Len(last.called) = 2
    /\ last.called[1].hook = "append_a"
    /\ last.called[2].hook = "_clean_markdown"
    /\ ~fnmatch(last.key, last.hooks[2].pattern)
    /\ last.result = _clean_markdown(Append(last.content, "a"))

\* C15: when a called hook raises, _run_hook still returns, the content after
\* that hook is the content it received, the error is logged with the hook's
\* pattern, and every later matching hook is still called.
C15_RaisingHookSkipped ==
    last.op = "_run_hook" =>
        /\ ~last.raised
        /\ Len(last.called) = Len(MatchingHooks)
        /\ \A i \in 1..Len(last.called) :
               HookOutcome(i).raised => ContentAfter(i) = last.called[i].content
        /\ LET Raises(h) == CallHook(h.hook, <<>>, last.key, last.sources).raised
           IN  last.logged
                   = [i \in 1..Len(SelectSeq(MatchingHooks, Raises)) |->
                          SelectSeq(MatchingHooks, Raises)[i].pattern]

\* A hook raised between two hooks that changed the content.
C15_Witness ==
    /\ last.op = "_run_hook"
    /\ Len(last.called) = 3
    /\ last.called[1].hook = "append_b"
    /\ last.called[2].hook = "_bad"
    /\ last.called[3].hook = "append_a"
    /\ last.result = last.content \o <<"b", "a">>

\* ------------------------------------------------------------------------
\* Properties of the directory-type gate
\* ------------------------------------------------------------------------
\* C16: validate_directory_type gives NOT_EXISTS when the path does not
\* exist, else NO_CONFIG when no type is configured, else MATCH when the
\* configured type is the detected one, else MISMATCH;
\* should_proceed_on_type_mismatch answers True for MATCH and NO_CONFIG,
\* False for NOT_EXISTS even under force, and for MISMATCH exactly when force
\* is set, whatever non_interactive is.
C16_DirectoryTypeGate ==
    /\ last.op \in {"validate_directory_type", "should_proceed_on_type_mismatch"} =>
           last.validation =
               IF last.path = "absent" THEN NOT_EXISTS
               ELSE IF last.configured = "none" THEN NO_CONFIG
               ELSE IF last.configured = detect_directory(last.path) THEN MATCH
               ELSE MISMATCH
    /\ last.op = "should_proceed_on_type_mismatch" =>
           last.proceed =
               CASE last.validation \in {MATCH, NO_CONFIG} -> TRUE
                 [] last.validation = NOT_EXISTS -> FALSE
                 [] OTHER -> last.force

\* A directory that does not exist is refused under force.
C16_Witness ==
    /\ last.op = "should_proceed_on_type_mismatch"
    /\ last.validation = NOT_EXISTS
    /\ last.force
    /\ ~last.proceed

\* C17: should_write_file emits a warning that names the file for every
\* CLOBBER_RECOVERABLE or CLOBBER_RISKY verdict, whether it answers write or
\* skip, and emits nothing for SAFE and NEW_FILE.
C17_ClobberAlwaysLogged ==
    last.op = "should_write_file" =>
        IF last.action \in {CLOBBER_RECOVERABLE, CLOBBER_RISKY}
        THEN last.warned /\ last.key \in Range(last.message)
        ELSE ~last.warned /\ last.message = <<>>

\* A recoverable clobber was written under force and logged.
C17_Witness ==
    /\ last.op = "should_write_file"
    /\ last.action = CLOBBER_RECOVERABLE
    /\ last.force
    /\ last.write
    /\ last.warned

\* C18: all clean runs over the same hierarchy that started from an empty
\* output directory left the same files with the same content, written in
\* the same order, and the same manifest entries.
C18_Deterministic ==
    \A i, j \in 1..Len(outputs) : outputs[i] = outputs[j]

\* Two clean runs from an empty directory each wrote both keys.
C18_Witness ==
    /\ Len(outputs) = 2
    /\ DOMAIN outputs[1].files = Keys
    /\ \A k \in Keys : Len(Contributors(k)) = 2

\* The entry the manifest file doc holds for key k, <<>> when it has none.
StoredEntry(doc, k) ==
    LET m == read_manifest(doc)
    IN  IF is_managed(m, k) THEN <<m.files[get_manifest_entry(m, k)]>> ELSE <<>>

\* C19: when the write loop is over, a write was attempted for every
\* accumulated key although some writes failed, every key whose write did
\* not fail holds its post-hooked content, and the manifest entry of each
\* failed key is what it was when the run started.
C19_WriteFailureContained ==
    WriteLoopDone =>
        /\ calls.write_text = Len(merged_files)
        /\ \A i \in 1..Len(merged_files) :
               merged_files[i].key \notin failed =>
                   /\ merged_files[i].key \in DOMAIN disk
                   /\ disk[merged_files[i].key] =
                          _run_hook(post_merge_hooks, merged_files[i].key,
                                    merged_files[i].content, merged_files[i].sources)
        /\ \A k \in failed : StoredEntry(stored, k) = StoredEntry(stored0, k)

\* The write of the first key, which the manifest lists, failed and the
\* second key was written after it.
C19_Witness ==
    /\ WriteLoopDone
    /\ failed = {SortedKeys[1]}
    /\ StoredEntry(stored0, SortedKeys[1]) # <<>>
    /\ WrittenKeys = {SortedKeys[2]}

\* C20: a file that cannot be read or merged does not end the run: in the
\* merge phase there always is a next entry to go on with (no state of the
\* phase is an abort), and in the write phase every key
\* has been accumulated from every source that holds a good file for it, the
\* files after the bad one and the later sources included.
C20_FileFailureContained ==
    /\ pc = "merge" => idx \in 1..Len(hierarchy)
    /\ pc = "write" =>
           \A k \in Keys :
               LET c == Contributors(k)
                   i == AccIndex(merged_files, k)
               IN  /\ (i # 0) = (c # <<>>)
                   /\ i # 0 => merged_files[i].sources
                                   = [n \in 1..Len(c) |-> hierarchy[c[n]].name]

\* A source whose first file is unreadable gave its second file, and a later
\* source gave the first key.
C20_Witness ==
    /\ pc = "write"
    /\ Len(merged_files) = 2
    /\ \E i \in 1..Len(hierarchy) :
           /\ hierarchy[i].scopes = "all"
           /\ hierarchy[i].exists
           /\ hierarchy[i].files[SortedKeys[1]] = "unreadable"
           /\ hierarchy[i].files[SortedKeys[2]] = "ok"
           /\ \E j \in (i + 1)..Len(hierarchy) :
                  /\ hierarchy[j].scopes = "all"
                  /\ hierarchy[j].exists
                  /\ hierarchy[j].files[SortedKeys[1]] = "ok"

\* An entry the hierarchy loop passes over: not applicable to the scope, or
\* without a local path, or without a discoverable file.
SkippedEntry(e) ==
    \/ e.scopes = "other"
    \/ ~e.exists
    \/ \A k \in Keys : e.files[k] = "absent"

\* The position in the hierarchy of the entry named n.
HierarchyPosition(n) == CHOOSE i \in 1..Len(hierarchy) : hierarchy[i].name = n

\* C21: an entry that is out of scope, has no local path or has no
\* discoverable file contributes to no key and does not end the hierarchy
\* loop; every other entry's readable files are accumulated, and each key's
\* sources stand in hierarchy order, low to high priority.
C21_SkippedEntriesPassedOver ==
    /\ pc = "merge" => idx \in 1..Len(hierarchy)
    /\ pc = "write" =>
           /\ \A i \in 1..Len(hierarchy), j \in 1..Len(merged_files) :
                  SkippedEntry(hierarchy[i]) =>
                      hierarchy[i].name \notin Range(merged_files[j].sources)
           /\ \A i \in 1..Len(hierarchy), k \in Keys :
                  (~SkippedEntry(hierarchy[i]) /\ hierarchy[i].files[k] = "ok") =>
                      /\ AccIndex(merged_files, k) # 0
                      /\ hierarchy[i].name
                             \in Range(merged_files[AccIndex(merged_files, k)].sources)
           /\ \A j \in 1..Len(merged_files) :
                  \A a, b \in 1..Len(merged_files[j].sources) :
                      a < b => HierarchyPosition(merged_files[j].sources[a])
                                   < HierarchyPosition(merged_files[j].sources[b])

\* An entry that is out of scope though it holds files stands before an entry
\* that gave both keys.
C21_Witness ==
    /\ pc = "write"
    /\ hierarchy[1].scopes = "other"
    /\ Len(merged_files) = 2
    /\ \A j \in 1..Len(merged_files) : merged_files[j].sources = <<hierarchy[2].name>>

\* C22: a manifest written by write_manifest is read back by read_manifest
\* with the same entries (name, agents and hash of each, in the same order)
\* and a last_synced that is not None; when the manifest file or its
\* directory was missing the write creates it.
C22_WriteReadRoundTrip ==
    (last.op = "write_manifest" /\ ~last.raised) =>
        /\ stored.kind = "mapping"
        /\ read_manifest(stored).files = last.manifest0.files
        /\ read_manifest(stored).last_synced # 0
        /\ read_manifest(stored) = manifest
        /\ ~read_manifest_raises(stored, TRUE)
        /\ read_manifest_files_type(stored) = "list"

C22_Witness ==
    /\ last.op = "write_manifest"
    /\ last.doc = "missing"
    /\ last.manifest0.last_synced = 0
    /\ Len(manifest.files) = 2
    /\ manifest.files[1].agents = <<"cursor", "claude">>
    /\ manifest.files[1].hash # <<>>
    /\ manifest.files[2].hash = <<>>
    /\ read_manifest(stored).files = manifest.files

\* C28: whatever the manifest file holds, the dictionary read_manifest
\* returns has a list as files, so that is_managed on it does not raise; a
\* mapping whose files is null or a scalar is read as the empty manifest.
C28_ReadIsWellFormed ==
    /\ (last.op = "read_manifest" /\ ~last.raised) =>
           /\ last.files_type = "list"
           /\ read_manifest_files_type(stored) # "list" => manifest = _empty_manifest
    /\ last.op = "is_managed" => ~last.raised

\* The keys of this run that should_write_file refuses under the flags of
\* the command line, whatever the repo says about recoverability.
RefusedKeys ==
    {k \in {merged_files[i].key : i \in 1..Len(merged_files)} :
        \A repo \in RepoKinds :
            ~should_write_file(check_clobber(k, disk0, read_manifest(stored0), repo),
                               last.force, last.non_interactive).write}

\* C23: the force and non_interactive flags of the run command govern every
\* write of the run (a key should_write_file refuses under them is not
\* written), and a non_interactive run that skipped a file ends with a
\* non-zero exit status.
C23_FlagsReachWriteDecision ==
    /\ pc = "write" => WrittenKeys \cap RefusedKeys = {}
    /\ (RunCompleted /\ last.non_interactive /\ RefusedKeys # {}) =>
           last.exit_status # <<0>>

\* Every name of default_hierarchy and of a directory's hierarchy is the
\* name of a repo.
HierarchiesNameRepos(c) ==
    /\ Range(c.default_hierarchy) \subseteq Range(c.repos)
    /\ \A p \in DOMAIN c.directories :
           Range(c.directories[p]) \subseteq Range(c.repos)

\* C24: remove_repo(name, force) of a repo that default_hierarchy or a
\* directory's hierarchy names: without force it exits with an error and the
\* configuration file is as before; with force the repo is gone and so is
\* its name from default_hierarchy and from every directory's hierarchy,
\* everything else being as before.  No Config method leaves a hierarchy
\* naming a repo that is not there unless it found one.
C24_RemoveRepoCascades ==
    /\ last.op = "remove_repo" =>
           LET c0 == last.config0
               name == last.key
               known == c0.exists /\ HierarchiesNameRepos(c0) /\ name \in Range(c0.repos)
           IN  /\ (known /\ references(c0, name) # {} /\ ~last.force) =>
                      last.raised /\ config = c0
               /\ (known /\ (last.force \/ references(c0, name) = {})) =>
                      /\ ~last.raised
                      /\ config.repos = Without(c0.repos, name)
                      /\ config.default_hierarchy = Without(c0.default_hierarchy, name)
                      /\ DOMAIN config.directories = DOMAIN c0.directories
                      /\ \A p \in DOMAIN c0.directories :
                             config.directories[p] = Without(c0.directories[p], name)
               /\ last.raised => config = c0
    /\ last.op # "none" =>
           (HierarchiesNameRepos(last.config0) => HierarchiesNameRepos(config))

C24_Witness ==
    /\ last.op = "remove_repo"
    /\ last.force
    /\ ~last.raised
    /\ "default_hierarchy" \in references(last.config0, last.key)
    /\ \E p \in DOMAIN config.directories :
           /\ p \in references(last.config0, last.key)
           /\ config.directories[p] # <<>>
    /\ Len(last.config0.repos) = 2

\* The agents whose most recent run produced key k.
Owners(k) == {a \in AgentNames : k \in produced[a]}

C27_EntriesAndAgentsUnique ==
    /\ \A i, j \in 1..Len(manifest.files) :
           manifest.files[i].name = manifest.files[j].name => i = j
    /\ \A i \in 1..Len(manifest.files) :
           \A x, y \in 1..Len(manifest.files[i].agents) :
               manifest.files[i].agents[x] = manifest.files[i].agents[y] => x = y

\* add_or_update_entry was called for a key and an agent the manifest
\* already lists, next to another entry with two agents.
C27_Witness ==
    /\ last.op = "add_or_update_entry"
    /\ is_managed(last.manifest0, last.key)
    /\ last.agent \in Range(last.manifest0.files[get_manifest_entry(last.manifest0, last.key)].agents)
    /\ Len(manifest.files) = 2
    /\ \A i \in 1..2 : Len(manifest.files[i].agents) = 2

\* The hierarchy entries processed so far.
Processed == IF pc = "merge" THEN idx - 1 ELSE Len(hierarchy)

\* The entries among the first n whose file for key k failed: it could not be
\* read, or it did not merge into what lower entries had given.
FailedSources(k, n) ==
    {j \in 1..n :
        /\ hierarchy[j].scopes # "other"
        /\ hierarchy[j].exists
        /\ hierarchy[j].files[k] \in {"unreadable", "unmergeable"}
        /\ j \notin Range(Contributors(k))}

\* What the contributors c (positions, low to high) accumulate for key k.
RECURSIVE Accumulated(_, _)
Accumulated(k, c) ==
    IF Len(c) = 1
    THEN [key |-> k, content |-> PreHooked(hierarchy[c[1]], k),
          sources |-> <<hierarchy[c[1]].name>>]
    ELSE LET before == Accumulated(k, SubSeq(c, 1, Len(c) - 1))
             H == hierarchy[c[Len(c)]]
         IN  [key |-> k,
              content |-> MergerMerge(get_merger(k), before.content, PreHooked(H, k),
                                      H.name, before.sources,
                                      merger_settings(get_merger(k))),
              sources |-> Append(before.sources, H.name)]

C30_NoExcludedComponent ==
    last.op = "_discover_files" =>
        /\ \A n \in 1..Len(last.result) :
               /\ last.result[n] \in last.tree
               /\ \A c \in 1..Len(last.result[n]), i \in 1..Len(BASE_EXCLUDE_PATTERNS) :
                      ~fnmatch(last.result[n][c], BASE_EXCLUDE_PATTERNS[i])
        /\ \A n \in 1..(Len(last.result) - 1) :
               PathLess(last.result[n], last.result[n + 1])

====
